---- MODULE Spec2Model ----
(***************************************************************************)
(* Model of the deduplication-and-merge pipeline:                          *)
(*   master_sync.py    _ensure_dedupe, _merge, sync_master_s3/_gcs         *)
(*   pipeline.py       flatten_featurecollection, choose_dedupe_key, main  *)
(*   object_store_io.py  s3/gcs download_if_exists and upload              *)
(*                                                                         *)
(* A text is a sequence of tokens, so that texts can be concatenated.      *)
(* A cell value is a record [t, v]: t is the Python type of the cell and   *)
(* v is the text str() gives for it, so that astype(str) is "retag as      *)
(* str" and 1 and "1" are different cells with the same string form.       *)
(* A DataFrame is [columns, rows]: the ordered column labels and the rows, *)
(* each a function from the column labels to cells.                        *)
(***************************************************************************)
EXTENDS Integers, Sequences, FiniteSets, TLC

\* ---------------------------------------------------------------- bounds
MaxBatch == 2
MaxMaster == 2

\* ---------------------------------------------------------------- cells
KEY == "_dedupe_key"

TextCell(text) == [t |-> "str", v |-> text]
StrCell(s) == TextCell(<<s>>)
IntCell(s) == [t |-> "int", v |-> <<s>>]
NaN == [t |-> "nan", v |-> <<"nan">>]

\* Series.astype(str) on one cell: str(1) = "1", str(nan) = "nan"
astype_str(x) == [t |-> "str", v |-> x.v]

\* ---------------------------------------------------------------- frames
Range(s) == {s[i] : i \in DOMAIN s}

Frame(columns, rows) == [columns |-> columns, rows |-> rows]

\* DataFrame.empty: some axis has length 0
IsEmpty(df) == Len(df.columns) = 0 \/ Len(df.rows) = 0

\* the optional master: <<>> is Python's None, <<df>> a frame
NoFrame == <<>>
Some(df) == <<df>>

\* df[col] = df[col].astype(str)
ColumnAsStr(df, col) ==
    [df EXCEPT !.rows = [i \in DOMAIN df.rows |->
                            [df.rows[i] EXCEPT ![col] = astype_str(@)]]]

\* reindexing one row on the union of the columns: a missing cell is NaN
Pad(row, columns) ==
    [c \in Range(columns) |-> IF c \in DOMAIN row THEN row[c] ELSE NaN]

\* a concat that puts the second frame's rows first
ConcatNewFirst(a, b) ==
    LET NewCol(c) == c \notin Range(a.columns)
        columns == a.columns \o SelectSeq(b.columns, NewCol)
    IN  Frame(columns,
              [i \in DOMAIN b.rows |-> Pad(b.rows[i], columns)]
              \o [i \in DOMAIN a.rows |-> Pad(a.rows[i], columns)])

\* pd.concat([a, b], ignore_index=True): a's columns, then b's new ones
concat(a, b) ==
    LET NewCol(c) == c \notin Range(a.columns)
        columns == a.columns \o SelectSeq(b.columns, NewCol)
    IN  Frame(columns,
              [i \in DOMAIN a.rows |-> Pad(a.rows[i], columns)]
              \o [i \in DOMAIN b.rows |-> Pad(b.rows[i], columns)])

\* ---------------------------------------------------------------- merge
\* _ensure_dedupe raises ValueError exactly when the column is missing
EnsureRaises(df_new) == KEY \notin Range(df_new.columns)

EnsureNoCast(df_new) == df_new

_ensure_dedupe(df_new) == ColumnAsStr(df_new, KEY)

MergeResult(raised, df, n) == [raised |-> raised, df |-> df, appended |-> n]

Raised == MergeResult(TRUE, Frame(<<>>, <<>>), 0)

\* df_new[~df_new["_dedupe_key"].isin(existing)]
NotIn(df, existing) ==
    LET Fresh(row) == row[KEY] \notin existing
    IN  [df EXCEPT !.rows = SelectSeq(df.rows, Fresh)]

\* _merge once df_new is known to carry the key column (lines 32-46)
MergeChecked(new, df_master) ==
    IF df_master = NoFrame \/ IsEmpty(df_master[1])
       THEN MergeResult(FALSE, new, Len(new.rows))
    ELSE IF KEY \notin Range(df_master[1].columns)
       THEN MergeResult(FALSE, new, Len(new.rows))
    ELSE LET master == ColumnAsStr(df_master[1], KEY)
             existing == {master.rows[i][KEY] : i \in DOMAIN master.rows}
             df_append == NotIn(new, existing)
         IN  MergeResult(FALSE, concat(master, df_append), Len(df_append.rows))

\* a merge that lets a batch row replace the master row with its key
MergeKeepLast(df_new, df_master) ==
    IF EnsureRaises(df_new) THEN Raised
    ELSE IF df_master = NoFrame \/ IsEmpty(df_master[1])
            \/ KEY \notin Range(df_master[1].columns)
       THEN MergeChecked(_ensure_dedupe(df_new), df_master)
    ELSE LET all == concat(ColumnAsStr(df_master[1], KEY), _ensure_dedupe(df_new))
             Last(i) == \A j \in DOMAIN all.rows :
                           j > i => all.rows[j][KEY] # all.rows[i][KEY]
             idx == SelectSeq([i \in DOMAIN all.rows |-> i], Last)
         IN  MergeResult(FALSE,
                         [all EXCEPT !.rows = [k \in DOMAIN idx |-> all.rows[idx[k]]]],
                         Len(idx) - Len(df_master[1].rows))

\* a merge that looks for the key column only once a master is there
MergeCheckLate(df_new, df_master) ==
    IF df_master = NoFrame \/ IsEmpty(df_master[1])
       THEN MergeResult(FALSE, df_new, Len(df_new.rows))
    ELSE IF EnsureRaises(df_new) THEN Raised
    ELSE MergeChecked(_ensure_dedupe(df_new), df_master)

_merge(df_new, df_master) ==
    IF EnsureRaises(df_new) THEN Raised
    ELSE MergeChecked(_ensure_dedupe(df_new), df_master)

\* pipeline.main, step 3: the same merge written inline; the master is an
\* empty frame when no file was downloaded, and its rows are left as read
main_merge(df_new, df_master) ==
    IF ~IsEmpty(df_master) /\ KEY \in Range(df_master.columns)
       THEN LET existing == {astype_str(df_master.rows[i][KEY]) :
                                i \in DOMAIN df_master.rows}
                df_append == NotIn(df_new, existing)
            IN  MergeResult(FALSE, concat(df_master, df_append),
                            Len(df_append.rows))
       ELSE MergeResult(FALSE, df_new, Len(df_new.rows))

\* ------------------------------------------------------- inputs of merge
SeqsUpTo(S, n) == UNION {[1..k -> S] : k \in 0..n}

BatchKeys == {IntCell("1"), StrCell("1"), StrCell("a"), StrCell("b")}
MasterKeys == {StrCell("1"), StrCell("a"), StrCell("b")}
Vals == {StrCell("x"), StrCell("y")}

RowsKV(keys) == {(KEY :> k) @@ ("v" :> v) : k \in keys, v \in Vals}
RowsKW(keys) == {(KEY :> k) @@ ("w" :> StrCell("z")) : k \in keys}
RowsV == {("v" :> v) : v \in Vals}

\* batches: keyed, keyed with a column the master lacks, and without the key
Batches ==
    {Frame(<<KEY, "v">>, r) : r \in SeqsUpTo(RowsKV(BatchKeys), MaxBatch)}
    \cup {Frame(<<KEY, "w">>, r) : r \in SeqsUpTo(RowsKW(BatchKeys), MaxBatch)}
    \cup {Frame(<<"v">>, r) : r \in SeqsUpTo(RowsV, MaxBatch)}

\* masters: absent, without any column, keyed, and legacy (no key column)
Masters ==
    {NoFrame, Some(Frame(<<>>, <<>>))}
    \cup {Some(Frame(<<KEY, "v">>, r)) : r \in SeqsUpTo(RowsKV(MasterKeys), MaxMaster)}
    \cup {Some(Frame(<<"v">>, r)) : r \in SeqsUpTo(RowsV, MaxMaster)}

\* ------------------------------------------------------------- identity
\* a feature is [properties, geometry]: properties a function from some of
\* the property names to cells, geometry a dict as <<key, text>> pairs in
\* the order the service sent them
PropOrder == <<"OBJECTID", "GlobalID", "kind">>
GeomKeyOrder == <<"coordinates", "type">>
\* the column labels in code point order, as sorted() puts them
CodePointOrder == <<"GLOBALID", "GlobalID", "OBJECTID", "ObjectId",
                    "_dedupe_key", "_geometry_json", "globalid", "kind",
                    "objectid">>

RECURSIVE Flat(_)
Flat(ss) == IF ss = <<>> THEN <<>> ELSE Head(ss) \o Flat(Tail(ss))

\* json.dumps(geom, sort_keys=True)
GeomDumps(geom) ==
    LET Has(k) == \E i \in DOMAIN geom : geom[i][1] = k
        At(k) == (CHOOSE i \in DOMAIN geom : geom[i][1] = k)
        keys == SelectSeq(GeomKeyOrder, Has)
    IN  <<"{">> \o Flat([j \in DOMAIN keys |-> <<keys[j], geom[At(keys[j])][2]>>])
        \o <<"}">>

\* one dict of flatten_featurecollection's rows: its labels in order, and it
PropLabels(feat) ==
    LET Has(c) == c \in DOMAIN feat.properties
    IN  SelectSeq(PropOrder, Has) \o <<"_geometry_json">>

PropRow(feat) ==
    [c \in Range(PropLabels(feat)) |->
        IF c = "_geometry_json" THEN TextCell(GeomDumps(feat.geometry))
        ELSE feat.properties[c]]

\* pd.DataFrame(rows): the labels in order of first appearance
RECURSIVE FirstSeen(_, _)
FirstSeen(feats, seen) ==
    IF feats = <<>> THEN seen
    ELSE LET New(c) == c \notin Range(seen)
         IN  FirstSeen(Tail(feats), seen \o SelectSeq(PropLabels(Head(feats)), New))

flatten_featurecollection(fc) ==
    LET columns == FirstSeen(fc, <<>>)
    IN  Frame(columns, [i \in DOMAIN fc |-> Pad(PropRow(fc[i]), columns)])

\* the caller's fc after flatten_featurecollection(fc): props is the
\* feature's own properties dict unless that dict is empty, so the
\* assignment props["_geometry_json"] = ... is made in the collection itself
fc_after_flatten(fc) ==
    [i \in DOMAIN fc |->
        IF DOMAIN fc[i].properties = {} THEN fc[i]
        ELSE [fc[i] EXCEPT !.properties = PropRow(fc[i])]]

\* json.dumps(fc), as far as the features go
snapshot_text(fc) == fc

\* json.dumps of one cell: "x", 1, NaN
JsonCell(x) ==
    CASE x.t = "str" -> <<"\"">> \o x.v \o <<"\"">>
      [] x.t = "int" -> x.v
      [] OTHER -> <<"NaN">>

\* hashlib.sha256(s).hexdigest(), taken to be injective
sha256(text) == <<"sha256">> \o text

GlobalIdNames == <<"GlobalID", "globalid", "GLOBALID">>
Exclude == {"OBJECTID", "ObjectId", "objectid", "_dedupe_key"}

row_hash(row, cols_sorted) ==
    sha256(<<"{">>
           \o Flat([j \in DOMAIN cols_sorted |->
                      <<cols_sorted[j]>> \o JsonCell(row[cols_sorted[j]])])
           \o <<"}">>)

\* the Series choose_dedupe_key returns, one cell per row
choose_dedupe_key(df) ==
    LET Present(c) == c \in Range(df.columns)
        ids == SelectSeq(GlobalIdNames, Present)
        Hashed(c) == Present(c) /\ c \notin Exclude
        cols_sorted == SelectSeq(CodePointOrder, Hashed)
    IN  IF ids # <<>>
           THEN [i \in DOMAIN df.rows |-> astype_str(df.rows[i][ids[1]])]
           ELSE [i \in DOMAIN df.rows |-> TextCell(row_hash(df.rows[i], cols_sorted))]

\* df_new["_dedupe_key"] = choose_dedupe_key(df_new).astype(str)
add_dedupe_key(df) ==
    LET keys == choose_dedupe_key(df)
    IN  Frame(IF KEY \in Range(df.columns) THEN df.columns
              ELSE df.columns \o <<KEY>>,
              [i \in DOMAIN df.rows |->
                  [c \in DOMAIN df.rows[i] \cup {KEY} |->
                      IF c = KEY THEN astype_str(keys[i]) ELSE df.rows[i][c]]])

\* one request of fetch_all_features_geojson: the features the service
\* holds at that moment from resultOffset on, resultRecordCount at most
query(service, offset, batch_size) ==
    LET last == IF offset + batch_size < Len(service)
                THEN offset + batch_size ELSE Len(service)
    IN  SubSeq(service, offset + 1, last)

\* ---------------------------------------------------- inputs of identity
MaxFeatures == 2
MaxRuns == 2
\* the batch_size the fetches are made with, in place of the default 2000
MaxPage == 1

Point == << <<"type", "Point">>, <<"coordinates", "[1,2]">> >>
PointReordered == << <<"coordinates", "[1,2]">>, <<"type", "Point">> >>

PropSets ==
    {("OBJECTID" :> o) @@ k @@ g :
        o \in {IntCell("1"), IntCell("2")},
        k \in {<<>>, ("kind" :> StrCell("x")), ("kind" :> StrCell("y"))},
        g \in {<<>>, ("GlobalID" :> StrCell("g1"))}}

Features ==
    {[properties |-> p, geometry |-> g] : p \in PropSets, g \in {Point, PointReordered}}

RECURSIVE SubSeqs(_)
SubSeqs(s) ==
    IF s = <<>> THEN {<<>>}
    ELSE LET rest == SubSeqs(Tail(s))
         IN  rest \cup {<<Head(s)>> \o r : r \in rest}

\* the content of a record that is not volatile: its properties but the
\* sequential row identifier and the derived geometry text, and its geometry
\* as a mapping
NonVolatile(feat) ==
    [props |-> {<<c, feat.properties[c]>> :
                   c \in DOMAIN feat.properties
                         \ {"OBJECTID", "ObjectId", "objectid", "_geometry_json"}},
     geom |-> Range(feat.geometry)]

\* ------------------------------------------------------- object stores
\* a file or a stored object: <<>> when there is none, <<content>> otherwise
NoFile == <<>>

MASTER_PARQUET == "master/AlphaPoliceEvent_master.parquet"
MASTER_CSV == "master/AlphaPoliceEvent_master.csv"

\* what a download does: it raises, or says whether the object existed and
\* leaves dest_path holding `dest`
Downloaded(raised, existed, dest) ==
    [raised |-> raised, existed |-> existed, dest |-> dest]

NotFoundCodes == {"404", "NoSuchKey", "NotFound"}

\* the answers of the service: `exists` to blob.exists, `get` to the
\* download ("unused" while the call has not been made)
Response(exists, get) == [exists |-> exists, get |-> get]

S3DownloadSwallowAll(resp, object, dest) ==
    IF resp.get = "ok" THEN Downloaded(FALSE, TRUE, object)
    ELSE Downloaded(FALSE, FALSE, dest)

s3_download_if_exists(resp, object, dest) ==
    IF resp.get = "ok" THEN Downloaded(FALSE, TRUE, object)
    ELSE IF resp.get \in NotFoundCodes THEN Downloaded(FALSE, FALSE, dest)
    ELSE Downloaded(TRUE, FALSE, dest)

\* gcs_download_if_exists is two calls to the service, and the object is
\* read at each. The first, blob.exists: it raises, or the function returns
\* (False, dest_path), or it goes on to the second
blob_exists(resp, dest) ==
    IF resp.exists = "error" THEN Downloaded(TRUE, FALSE, dest)
    ELSE Downloaded(FALSE, FALSE, dest)

GoesOn(resp) == resp.exists = "true"

\* the second, blob.download_to_filename, on the object as it is by then;
\* a failed download leaves no usable file behind
blob_download_to_filename(resp, object, dest) ==
    IF resp.get = "ok" /\ object # NoFile THEN Downloaded(FALSE, TRUE, object)
    ELSE Downloaded(TRUE, FALSE, NoFile)

\* an upload that merges what the object holds instead of replacing it
S3UploadKeepingRows(key, object, file) ==
    IF key = MASTER_PARQUET /\ object # NoFile /\ file # NoFile
          /\ KEY \in Range(object[1].columns) /\ KEY \in Range(file[1].columns)
       THEN LET Lost(row) == \A i \in DOMAIN file[1].rows :
                                 file[1].rows[i][KEY] # row[KEY]
            IN  Some(concat(file[1],
                            [object[1] EXCEPT !.rows = SelectSeq(@, Lost)]))
       ELSE file

\* upload_file / upload_from_filename: the object becomes the local file
s3_upload(key, object, file) == file

gcs_upload(key, object, file) == file

\* DataFrame.to_parquet and pd.read_parquet: the frame round-trips
to_parquet(df) == Some(df)
read_parquet(file) == file[1]

\* DataFrame.to_csv(index=False): a header line, then the cells as text,
\* a missing cell as the empty text
to_csv(df) ==
    LET Cell(x) == IF x.t = "nan" THEN <<>> ELSE x.v
    IN  Some(<<df.columns>>
             \o [i \in DOMAIN df.rows |->
                    [j \in DOMAIN df.columns |-> Cell(df.rows[i][df.columns[j]])]])

\* df_master = pd.read_parquet(local_parquet) if existed else None
LoadWhateverIsThere(existed, local_parquet) ==
    IF local_parquet # NoFile THEN Some(read_parquet(local_parquet)) ELSE NoFrame

LoadMaster(existed, local_parquet) ==
    IF existed THEN Some(read_parquet(local_parquet)) ELSE NoFrame

\* the caller's df_new after _merge(df_new, ...): _ensure_dedupe works on a copy
df_new_after_merge(df_new) == df_new

\* drive_io.download_file_if_exists as main uses it: it raises, or says
\* whether the file is in the folder and, if so, leaves it at dest_path
download_file_if_exists(resp, object, dest) ==
    IF resp = "error" THEN Downloaded(TRUE, FALSE, dest)
    ELSE IF object = NoFile THEN Downloaded(FALSE, FALSE, dest)
    ELSE Downloaded(FALSE, TRUE, object)

\* drive_io.upload_or_update_file: the file of that name is created or
\* updated, and holds what the local file holds
upload_or_update_file(object, file) == file

\* the answers of Drive to a download and to an upload
DriveResponses == {"ok", "error"}

\* df_master of main: the downloaded master, or pd.DataFrame()
LoadDriveMaster(exists, local_master_parquet) ==
    IF exists THEN read_parquet(local_master_parquet) ELSE Frame(<<>>, <<>>)

Targets == {"s3", "gcs"}
Runs == {1, 2}

\* the first service call of a download: all of it on S3
download_if_exists(target, resp, object, dest) ==
    IF target = "s3" THEN s3_download_if_exists(resp, object, dest)
    ELSE blob_exists(resp, dest)

upload(target, key, object, file) ==
    IF target = "s3" THEN s3_upload(key, object, file)
    ELSE gcs_upload(key, object, file)

\* the answers a service can give for an object that is or is not there
Responses(target, object) ==
    IF target = "s3"
       THEN {Response("unused", g) :
                g \in IF object # NoFile THEN {"ok", "AccessDenied"}
                      ELSE NotFoundCodes \cup {"AccessDenied"}}
       ELSE IF object # NoFile
               THEN {Response("true", "unused"), Response("error", "unused")}
               ELSE {Response("false", "unused"), Response("error", "unused")}

\* the answers to blob.download_to_filename
GetResponses(object) == IF object # NoFile THEN {"ok", "error"} ELSE {"error"}

\* ------------------------------------------------------- inputs of sync
MaxSyncs == 2
MaxSyncBatch == 1
MaxSyncMaster == 1

SyncKeys == {StrCell("a"), StrCell("b")}
RowsNew == {(KEY :> k) @@ ("v" :> StrCell("x")) : k \in SyncKeys}
RowsOld == {(KEY :> k) @@ ("v" :> StrCell("y")) : k \in SyncKeys}
LegacyFrame == Frame(<<"v">>, <<("v" :> StrCell("y"))>>)

SyncBatches ==
    {Frame(<<KEY, "v">>, r) : r \in SeqsUpTo(RowsNew, MaxSyncBatch)}
    \cup {Frame(<<"v">>, <<("v" :> StrCell("x"))>>)}

RaceBatches == {Frame(<<KEY, "v">>, r) : r \in SeqsUpTo(RowsNew, MaxSyncBatch)}

StoreMasters ==
    {NoFile, to_parquet(LegacyFrame)}
    \cup {to_parquet(Frame(<<KEY, "v">>, r)) : r \in SeqsUpTo(RowsOld, MaxSyncMaster)}

StoredObject(file) ==
    [parquet |-> file, csv |-> IF file = NoFile THEN NoFile ELSE to_csv(file[1])]

\* ---------------------------------------------------------------- state
\* merge as a pure function: the collection a batch is made from, the
\* arguments of the merge, merge(B, M) by _merge and by main,
\* merge(B, merge(B, M).master), and the step reached
VARIABLES in_fc, in_new, in_master, out1, out2, out_main, mpc
\* a pipeline run: what the service holds, the fetch loop's features and
\* offset, the fetched collection, the snapshot file of the day, the
\* batch, the master as downloaded, the files of the working directory, the
\* files on Drive, the run number, the step reached, and every
\* (content, key) pair assigned
VARIABLES upstream, features, offset, fc, snapshot, df_new, df_master, work,
          drive, run, ipc, assigned

\* store syncs: the master objects of each store, each run's working
\* directory, batch and number of syncs it may make, where each run stands,
\* the locals of its current sync, what its syncs returned or raised, and
\* who uploaded each store's master last
VARIABLES store, local, batch, budget, pc, call, ret, writer

mergeVars == <<in_fc, in_new, in_master, out1, out2, out_main, mpc>>
identVars == <<upstream, features, offset, fc, snapshot, df_new, df_master, work,
              drive, run, ipc, assigned>>
syncVars == <<store, local, batch, budget, pc, call, ret, writer>>
vars == <<mergeVars, identVars, syncVars>>

\* ------------------------------------------------ merge as a pure function
MergeIdle ==
    /\ in_fc = <<>>
    /\ in_new = Frame(<<>>, <<>>)
    /\ in_master = NoFrame
    /\ out1 = Raised
    /\ out2 = Raised
    /\ out_main = Raised
    /\ mpc = "off"

NoDriveFiles == [snapshot |-> NoFile, parquet |-> NoFile, csv |-> NoFile]

IdentStart ==
    /\ features = <<>>
    /\ offset = 0
    /\ fc = <<>>
    /\ snapshot = NoFile
    /\ df_new = Frame(<<>>, <<>>)
    /\ df_master = Frame(<<>>, <<>>)
    /\ work = StoredObject(NoFile)
    /\ drive = NoDriveFiles
    /\ assigned = {}

IdentIdle ==
    /\ IdentStart
    /\ upstream = <<>>
    /\ run = 0
    /\ ipc = "off"

NoCall == [target |-> "none"]
NoWriter == [run |-> 0]

SyncIdle ==
    /\ store = [t \in Targets |-> StoredObject(NoFile)]
    /\ local = [r \in Runs |-> StoredObject(NoFile)]
    /\ batch = [r \in Runs |-> Frame(<<>>, <<>>)]
    /\ budget = [r \in Runs |-> 0]
    /\ pc = [r \in Runs |-> "idle"]
    /\ call = [r \in Runs |-> NoCall]
    /\ ret = [r \in Runs |-> <<>>]
    /\ writer = [t \in Targets |-> NoWriter]

MasterFrame(m) == IF m = NoFrame THEN Frame(<<>>, <<>>) ELSE m[1]

InitMerge ==
    /\ in_fc = <<>>
    /\ in_new \in Batches
    /\ in_master \in Masters
    /\ out1 = Raised
    /\ out2 = Raised
    /\ out_main = Raised
    /\ mpc = "start"
    /\ IdentIdle
    /\ SyncIdle

\* merge(B, M), by _merge and by main's inline code
Merge ==
    /\ mpc = "start"
    /\ out1' = _merge(in_new, in_master)
    /\ out_main' = IF EnsureRaises(in_new) THEN Raised
                   ELSE main_merge(_ensure_dedupe(in_new), MasterFrame(in_master))
    /\ mpc' = "merged"
    /\ UNCHANGED <<in_fc, in_new, in_master, out2, identVars, syncVars>>

\* merge(B, merge(B, M).master)
MergeAgain ==
    /\ mpc = "merged"
    /\ ~out1.raised
    /\ out2' = _merge(in_new, Some(out1.df))
    /\ mpc' = "again"
    /\ UNCHANGED <<in_fc, in_new, in_master, out1, out_main, identVars, syncVars>>

NextMerge == Merge \/ MergeAgain

SpecMerge == InitMerge /\ [][NextMerge]_vars

\* --------------------------------------- the merge of a batch as main keys it
\* the batch main makes of a fetched collection (lines 112, 147-148)
keyed_batch(collection) == add_dedupe_key(flatten_featurecollection(collection))

\* masters a run can have left: none, or the keyed batch of an earlier fetch
KeyedMasters ==
    {NoFrame} \cup {Some(keyed_batch(<<f>>)) : f \in Features}

InitBatch ==
    /\ in_fc \in SeqsUpTo(Features, MaxFeatures) \ {<<>>}
    /\ in_new = Frame(<<>>, <<>>)
    /\ in_master \in KeyedMasters
    /\ out1 = Raised
    /\ out2 = Raised
    /\ out_main = Raised
    /\ mpc = "fetched"
    /\ IdentIdle
    /\ SyncIdle

KeyBatch ==
    /\ mpc = "fetched"
    /\ in_new' = keyed_batch(in_fc)
    /\ mpc' = "start"
    /\ UNCHANGED <<in_fc, in_master, out1, out2, out_main, identVars, syncVars>>

NextBatch == KeyBatch \/ Merge \/ MergeAgain

SpecBatch == InitBatch /\ [][NextBatch]_vars

\* ------------------------------------------------------- a pipeline run
\* The service holds a non-empty collection when the first run starts and
\* Drive holds no file. Features leave the service's rolling window between
\* two runs and between two requests of one fetch; those that stay are
\* unchanged. A call to a service can fail, and the exception ends the run.
InitIdentity ==
    /\ MergeIdle
    /\ SyncIdle
    /\ IdentStart
    /\ upstream \in SeqsUpTo(Features, MaxFeatures) \ {<<>>}
    /\ run = 1
    /\ ipc = "fetch"

\* one turn of the loop of fetch_all_features_geojson (lines 29-47): the
\* request fails and the run ends, or its page is added to features; a
\* short page ends the loop and the function returns the collection
Fetch ==
    /\ ipc = "fetch"
    /\ \/ /\ ipc' = "raised"
          /\ features' = <<>>
          /\ offset' = 0
          /\ UNCHANGED fc
       \/ LET page == query(upstream, offset, MaxPage)
          IN  IF Len(page) < MaxPage
                 THEN /\ fc' = features \o page
                      /\ features' = <<>>
                      /\ offset' = 0
                      /\ ipc' = "flatten"
                 ELSE /\ features' = features \o page
                      /\ offset' = offset + MaxPage
                      /\ UNCHANGED <<fc, ipc>>
    /\ UNCHANGED <<upstream, snapshot, df_new, df_master, work, drive, run,
                   assigned, mergeVars, syncVars>>

\* the service while the fetch waits for its next page: features leave
Expire ==
    /\ ipc = "fetch"
    /\ offset > 0
    /\ upstream' \in SubSeqs(upstream) \ {upstream}
    /\ UNCHANGED <<features, offset, fc, snapshot, df_new, df_master, work,
                   drive, run, ipc, assigned, mergeVars, syncVars>>

\* main, lines 112-118: the batch, and the snapshot written from fc as
\* flatten_featurecollection left it
Flatten ==
    /\ ipc = "flatten"
    /\ df_new' = flatten_featurecollection(fc)
    /\ fc' = fc_after_flatten(fc)
    /\ snapshot' = <<snapshot_text(fc')>>
    /\ ipc' = "upload_snapshot"
    /\ UNCHANGED <<upstream, features, offset, df_master, work, drive, run,
                   assigned, mergeVars, syncVars>>

\* main, lines 120-126: the snapshot goes to Drive
UploadSnapshot ==
    /\ ipc = "upload_snapshot"
    /\ \E resp \in DriveResponses :
          IF resp = "error"
             THEN ipc' = "raised" /\ UNCHANGED drive
             ELSE /\ drive' = [drive EXCEPT
                                  !.snapshot = upload_or_update_file(@, snapshot)]
                  /\ ipc' = "download"
    /\ UNCHANGED <<upstream, features, offset, fc, snapshot, df_new, df_master,
                   work, run, assigned, mergeVars, syncVars>>

\* main, lines 128-143: the master on Drive, if there is one, is downloaded
\* and read
DownloadMaster ==
    /\ ipc = "download"
    /\ \E resp \in DriveResponses :
          LET d == download_file_if_exists(resp, drive.parquet, work.parquet)
          IN  IF d.raised
                 THEN ipc' = "raised" /\ UNCHANGED <<work, df_master>>
                 ELSE /\ work' = [work EXCEPT !.parquet = d.dest]
                      /\ df_master' = LoadDriveMaster(d.existed, d.dest)
                      /\ ipc' = "key"
    /\ UNCHANGED <<upstream, features, offset, fc, snapshot, df_new, drive, run,
                   assigned, mergeVars, syncVars>>

\* main, lines 146-148
AssignKey ==
    /\ ipc = "key"
    /\ df_new' = add_dedupe_key(df_new)
    /\ assigned' = assigned \cup
          {[content |-> NonVolatile(fc[i]), key |-> df_new'.rows[i][KEY].v] :
              i \in DOMAIN fc}
    /\ ipc' = "merge"
    /\ UNCHANGED <<upstream, features, offset, fc, snapshot, df_master, work,
                   drive, run, mergeVars, syncVars>>

\* main, lines 150-163: the inline merge, and df_out written to the two
\* local master files
MergeMaster ==
    /\ ipc = "merge"
    /\ LET df_out == main_merge(df_new, df_master).df
       IN  work' = [parquet |-> to_parquet(df_out), csv |-> to_csv(df_out)]
    /\ ipc' = "upload_parquet"
    /\ UNCHANGED <<upstream, features, offset, fc, snapshot, df_new, df_master,
                   drive, run, assigned, mergeVars, syncVars>>

\* main, lines 166-172
UploadMasterParquet ==
    /\ ipc = "upload_parquet"
    /\ \E resp \in DriveResponses :
          IF resp = "error"
             THEN ipc' = "raised" /\ UNCHANGED drive
             ELSE /\ drive' = [drive EXCEPT
                                  !.parquet = upload_or_update_file(@, work.parquet)]
                  /\ ipc' = "upload_csv"
    /\ UNCHANGED <<upstream, features, offset, fc, snapshot, df_new, df_master,
                   work, run, assigned, mergeVars, syncVars>>

\* main, lines 174-184
UploadMasterCsv ==
    /\ ipc = "upload_csv"
    /\ \E resp \in DriveResponses :
          IF resp = "error"
             THEN ipc' = "raised" /\ UNCHANGED drive
             ELSE /\ drive' = [drive EXCEPT
                                  !.csv = upload_or_update_file(@, work.csv)]
                  /\ ipc' = "done"
    /\ UNCHANGED <<upstream, features, offset, fc, snapshot, df_new, df_master,
                   work, run, assigned, mergeVars, syncVars>>

\* the next scheduled run, after one that finished or one that raised
NextRun ==
    /\ ipc \in {"done", "raised"}
    /\ run < MaxRuns
    /\ upstream' \in SubSeqs(upstream) \ {<<>>}
    /\ features' = <<>>
    /\ offset' = 0
    /\ run' = run + 1
    /\ ipc' = "fetch"
    /\ UNCHANGED <<fc, snapshot, df_new, df_master, work, drive, assigned,
                   mergeVars, syncVars>>

NextIdentity ==
    \/ Fetch
    \/ Expire
    \/ Flatten
    \/ UploadSnapshot
    \/ DownloadMaster
    \/ AssignKey
    \/ MergeMaster
    \/ UploadMasterParquet
    \/ UploadMasterCsv
    \/ NextRun

SpecIdentity == InitIdentity /\ [][NextIdentity]_vars

\* ---------------------------------------------------------- store syncs
\* what a sync handed back: the store, the exception raised ("" for none),
\* the dict's master_existed, appended and master_total, and for the record
\* the service's answer and the stores and working directory before the
\* merge and at the end
Report(r, target, resp, raised, existed, appended, total, before) ==
    [store |-> target, resp |-> resp, raised |-> raised,
     master_existed |-> existed, appended |-> appended, master_total |-> total,
     before |-> before]

\* the end of a download that answered d: the exception goes to the caller,
\* or the master is read from the working directory (lines 59-60, 90-91)
Downloads(r, target, resp, d) ==
    LET before == [store |-> store, batch |-> batch[r],
                   local |-> [local[r] EXCEPT !.parquet = d.dest]]
    IN  /\ local' = [local EXCEPT ![r].parquet = d.dest]
        /\ IF d.raised
              THEN /\ ret' = [ret EXCEPT ![r] = Append(@,
                                Report(r, target, resp, "download", FALSE,
                                       0, 0, before)
                                @@ [after |-> [store |-> store,
                                               batch |-> batch[r],
                                               local |-> local'[r]]])]
                   /\ pc' = [pc EXCEPT ![r] = "idle"]
                   /\ call' = [call EXCEPT ![r] = NoCall]
              ELSE /\ call' = [call EXCEPT ![r] =
                                [target |-> target, resp |-> resp,
                                 existed |-> d.existed,
                                 df_master |-> LoadMaster(d.existed, d.dest),
                                 before |-> before]]
                   /\ pc' = [pc EXCEPT ![r] = "merge"]
                   /\ UNCHANGED ret

\* sync_master_s3 / sync_master_gcs up to the first service call of the
\* download (lines 53-59, 84-90): the whole download on S3, blob.exists on
\* GCS
Download(r) ==
    /\ pc[r] = "idle"
    /\ Len(ret[r]) < budget[r]
    /\ \E target \in Targets :
         \E resp \in Responses(target, store[target].parquet) :
            IF target = "gcs" /\ GoesOn(resp)
               THEN /\ pc' = [pc EXCEPT ![r] = "download_blob"]
                    /\ call' = [call EXCEPT ![r] =
                                   [target |-> target, resp |-> resp]]
                    /\ UNCHANGED <<local, ret>>
               ELSE Downloads(r, target, resp,
                              download_if_exists(target, resp,
                                                 store[target].parquet,
                                                 local[r].parquet))
    /\ UNCHANGED <<store, batch, budget, writer, mergeVars, identVars>>

\* blob.download_to_filename, on the object as the store holds it now
\* (object_store_io.py 108-109)
DownloadBlob(r) ==
    /\ pc[r] = "download_blob"
    /\ LET c == call[r]
       IN  \E g \in GetResponses(store[c.target].parquet) :
              LET resp == [c.resp EXCEPT !.get = g]
              IN  Downloads(r, c.target, resp,
                            blob_download_to_filename(resp, store[c.target].parquet,
                                                      local[r].parquet))
    /\ UNCHANGED <<store, batch, budget, writer, mergeVars, identVars>>

\* the merge and the two local files (lines 62-65, 93-96)
MergeStep(r) ==
    /\ pc[r] = "merge"
    /\ LET c == call[r]
           m == _merge(batch[r], c.df_master)
       IN  /\ batch' = [batch EXCEPT ![r] = df_new_after_merge(@)]
           /\ IF m.raised
                 THEN /\ ret' = [ret EXCEPT ![r] = Append(@,
                                   Report(r, c.target, c.resp, "ValueError",
                                          c.existed, 0, 0, c.before)
                                   @@ [after |-> [store |-> store,
                                                  batch |-> batch'[r],
                                                  local |-> local[r]]])]
                      /\ pc' = [pc EXCEPT ![r] = "idle"]
                      /\ call' = [call EXCEPT ![r] = NoCall]
                      /\ UNCHANGED local
                 ELSE /\ local' = [local EXCEPT ![r] =
                                      [parquet |-> to_parquet(m.df),
                                       csv |-> to_csv(m.df)]]
                      /\ call' = [call EXCEPT ![r] =
                                      c @@ [df_out |-> m.df, appended |-> m.appended]]
                      /\ pc' = [pc EXCEPT ![r] = "upload_parquet"]
                      /\ UNCHANGED ret
    /\ UNCHANGED <<store, budget, writer, mergeVars, identVars>>

UploadFailed(r) ==
    LET c == call[r]
    IN  /\ ret' = [ret EXCEPT ![r] = Append(@,
                     Report(r, c.target, c.resp, "upload", c.existed, 0, 0, c.before)
                     @@ [after |-> [store |-> store, batch |-> batch[r],
                                    local |-> local[r]]])]
        /\ pc' = [pc EXCEPT ![r] = "idle"]
        /\ call' = [call EXCEPT ![r] = NoCall]
        /\ UNCHANGED <<store, writer>>

\* the upload of the parquet master (lines 67, 98)
UploadParquet(r) ==
    /\ pc[r] = "upload_parquet"
    /\ LET c == call[r]
       IN  \/ /\ store' = [store EXCEPT ![c.target].parquet =
                             upload(c.target, MASTER_PARQUET, @, local[r].parquet)]
              /\ writer' = [writer EXCEPT ![c.target] =
                             [run |-> r, df_master |-> c.df_master,
                              seen |-> c.before.store[c.target].parquet]]
              /\ pc' = [pc EXCEPT ![r] = "upload_csv"]
              /\ UNCHANGED <<call, ret>>
           \/ UploadFailed(r)
    /\ UNCHANGED <<local, batch, budget, mergeVars, identVars>>

\* the upload of the csv master and the returned dict (lines 68-77, 99-108)
UploadCsv(r) ==
    /\ pc[r] = "upload_csv"
    /\ LET c == call[r]
       IN  \/ /\ store' = [store EXCEPT ![c.target].csv =
                             upload(c.target, MASTER_CSV, @, local[r].csv)]
              /\ ret' = [ret EXCEPT ![r] = Append(@,
                           Report(r, c.target, c.resp, "", c.existed, c.appended,
                                  Len(c.df_out.rows), c.before)
                           @@ [after |-> [store |-> store', batch |-> batch[r],
                                          local |-> local[r]]])]
              /\ pc' = [pc EXCEPT ![r] = "idle"]
              /\ call' = [call EXCEPT ![r] = NoCall]
              /\ UNCHANGED writer
           \/ UploadFailed(r)
    /\ UNCHANGED <<local, batch, budget, mergeVars, identVars>>

NextSync ==
    \E r \in Runs :
        \/ Download(r)
        \/ DownloadBlob(r)
        \/ MergeStep(r)
        \/ UploadParquet(r)
        \/ UploadCsv(r)

SyncStart ==
    /\ MergeIdle
    /\ IdentIdle
    /\ local = [r \in Runs |-> StoredObject(NoFile)]
    /\ pc = [r \in Runs |-> "idle"]
    /\ call = [r \in Runs |-> NoCall]
    /\ ret = [r \in Runs |-> <<>>]
    /\ writer = [t \in Targets |-> NoWriter]

\* one run that syncs its batch into stores one after the other, in one
\* working directory
InitSync ==
    /\ SyncStart
    /\ \E m \in [Targets -> StoreMasters] :
          store = [t \in Targets |-> StoredObject(m[t])]
    /\ \E b \in SyncBatches :
          batch = [r \in Runs |-> IF r = 1 THEN b ELSE Frame(<<>>, <<>>)]
    /\ budget = [r \in Runs |-> IF r = 1 THEN MaxSyncs ELSE 0]

SpecSync == InitSync /\ [][NextSync]_vars

\* two runs, each on its own machine, each syncing once
InitRace ==
    /\ SyncStart
    /\ \E t \in Targets : \E m \in StoreMasters :
          store = [u \in Targets |-> StoredObject(IF u = t THEN m ELSE NoFile)]
    /\ batch \in [Runs -> RaceBatches]
    /\ budget = [r \in Runs |-> 1]

SpecRace == InitRace /\ [][NextSync]_vars

\* ------------------------------------------------------ claims on merge
\* a row of the result is `row`: equal on row's columns, NaN on the others
RowIs(outrow, row) ==
    \A c \in DOMAIN outrow :
        outrow[c] = (IF c \in DOMAIN row THEN row[c] ELSE NaN)

Merged == mpc \in {"merged", "again"}

HasMaster == in_master # NoFrame
Keyed(m) == m # NoFrame /\ KEY \in Range(m[1].columns)
Legacy(m) == m # NoFrame /\ ~IsEmpty(m[1]) /\ KEY \notin Range(m[1].columns)
MasterRows == IF HasMaster THEN in_master[1].rows ELSE <<>>

\* the string form of a row's Identity Key
KeyText(row) == row[KEY].v
KeyTexts(rows) == {KeyText(rows[i]) : i \in DOMAIN rows}

\* the indices of B's rows whose Identity Key is not in M, in B's order
FreshIdx ==
    LET Fresh(j) == KeyText(in_new.rows[j]) \notin KeyTexts(MasterRows)
    IN  SelectSeq([j \in DOMAIN in_new.rows |-> j], Fresh)

\* C1 as stated: for all B and all M, every row of M is present unchanged
\* in merge(B, M).master.
C1_AppendOnlyAllMasters ==
    (Merged /\ ~out1.raised) =>
        \A i \in DOMAIN MasterRows :
            \E j \in DOMAIN out1.df.rows : RowIs(out1.df.rows[j], MasterRows[i])

\* C1 amended: when M is absent, empty or carries Identity Keys, every row of
\* M is in merge(B, M).master at its own position with its own values, by
\* _merge and by main's inline merge; only a non-empty master without the key
\* column is replaced by the batch.
C1_AppendOnlyKeyedMasters ==
    (Merged /\ ~out1.raised /\ ~Legacy(in_master)) =>
        /\ Len(out1.df.rows) >= Len(MasterRows)
        /\ Len(out_main.df.rows) >= Len(MasterRows)
        /\ \A i \in DOMAIN MasterRows :
              /\ RowIs(out1.df.rows[i], MasterRows[i])
              /\ RowIs(out_main.df.rows[i], MasterRows[i])

\* a keyed master meets a batch that repeats one of its keys with other
\* values and also brings a new row
C1_Witness ==
    /\ Merged /\ ~out1.raised /\ Keyed(in_master)
    /\ out1.appended > 0
    /\ \E i \in DOMAIN MasterRows : \E j \in DOMAIN in_new.rows :
          /\ "v" \in DOMAIN in_new.rows[j]
          /\ KeyText(in_new.rows[j]) = KeyText(MasterRows[i])
          /\ in_new.rows[j]["v"] # MasterRows[i]["v"]

\* C2: merging B again into merge(B, M).master appends nothing and returns
\* the same rows, for any master (absent, empty, legacy, keyed).
C2_Idempotent ==
    (mpc = "again") =>
        /\ ~out2.raised
        /\ out2.appended = 0
        /\ out2.df.rows = out1.df.rows

\* the first merge appended a row whose key was not a string, and a repeat
C2_Witness ==
    /\ mpc = "again"
    /\ out1.appended = 2
    /\ \E j \in DOMAIN in_new.rows : in_new.rows[j][KEY].t = "int"
    /\ \E j, k \in DOMAIN in_new.rows :
          j # k /\ KeyText(in_new.rows[j]) = KeyText(in_new.rows[k])

\* a master the merge itself can have written: absent, empty, or keyed with
\* no key repeated
SoundMaster ==
    /\ ~Legacy(in_master)
    /\ \A i, j \in DOMAIN MasterRows :
          KeyText(MasterRows[i]) = KeyText(MasterRows[j]) => i = j

\* C3 as stated, on the masters a merge can have written: the result has
\* no two rows with one Identity Key, and its number of distinct keys is
\* len(M) + appended_count.
C3_UniqueGrowth ==
    (Merged /\ ~out1.raised /\ SoundMaster) =>
        /\ \A i, j \in DOMAIN out1.df.rows :
              KeyText(out1.df.rows[i]) = KeyText(out1.df.rows[j]) => i = j
        /\ Cardinality(KeyTexts(out1.df.rows)) = Len(MasterRows) + out1.appended

\* C6: for a non-empty keyed M the result is M's rows in order, then the
\* rows of B whose key is not in M, in B's order; appended_count counts them.
C6_OrderedConcat ==
    (Merged /\ Keyed(in_master) /\ ~IsEmpty(in_master[1]) /\ ~EnsureRaises(in_new)) =>
        /\ ~out1.raised
        /\ out1.appended = Len(FreshIdx)
        /\ Len(out1.df.rows) = Len(MasterRows) + Len(FreshIdx)
        /\ \A i \in DOMAIN MasterRows : RowIs(out1.df.rows[i], MasterRows[i])
        /\ \A k \in DOMAIN FreshIdx :
              RowIs(out1.df.rows[Len(MasterRows) + k],
                    [in_new.rows[FreshIdx[k]] EXCEPT ![KEY] = astype_str(@)])

\* two new rows were appended after two master rows, a known row was skipped
C6_Witness ==
    /\ Merged /\ Keyed(in_master) /\ Len(MasterRows) = 2
    /\ Len(in_new.rows) = 2 /\ out1.appended = 1
    /\ FreshIdx = <<2>>

\* --------------------------------------------------- claims on identity
\* C4 as stated: a record's Identity Key depends on its own non-volatile
\* content only, whatever batch it is fetched with and on every run.
C4_KeyIsFunctionOfContent ==
    \A a, b \in assigned : a.content = b.content => a.key = b.key

HashPath == \A c \in Range(GlobalIdNames) : c \notin Range(in_new.columns)

\* the rows of a frame that carry the Identity Key of `row`
WithKeyOf(df, row) == {m \in DOMAIN df.rows : KeyText(df.rows[m]) = KeyText(row)}

\* C7 as stated: in a batch without a global-identifier column, two rows
\* that differ only in OBJECTID have one Identity Key, and in the updated
\* master, by _merge and by main's inline merge, at most one row carries it.
C7_SecondTwinDropped ==
    (Merged /\ in_fc # <<>> /\ HashPath) =>
        \A i, j \in DOMAIN in_fc :
            (/\ in_fc[i].properties["OBJECTID"] # in_fc[j].properties["OBJECTID"]
             /\ NonVolatile(in_fc[i]) = NonVolatile(in_fc[j])) =>
                /\ in_new.rows[i][KEY] = in_new.rows[j][KEY]
                /\ Cardinality(WithKeyOf(out1.df, in_new.rows[i])) <= 1
                /\ Cardinality(WithKeyOf(out_main.df, in_new.rows[i])) <= 1

\* ------------------------------------------------------ claims on syncs
Reports(r) == {ret[r][i] : i \in DOMAIN ret[r]}
FileRows(file) == IF file = NoFile THEN <<>> ELSE file[1].rows
FileKeys(file) ==
    IF file = NoFile \/ KEY \notin Range(file[1].columns) THEN {}
    ELSE KeyTexts(file[1].rows)

\* C5: nothing orders two runs on one store. The persisted master is what
\* the last uploader merged from the copy it downloaded, whatever was
\* uploaded in between, so a key another run appended is persisted only if
\* the last uploader's batch or downloaded copy had it.
C5_LastUploadWins ==
    \A t \in Targets :
        writer[t].run # 0 =>
            LET w == writer[t]
                kept == FileKeys(w.seen) \cup KeyTexts(batch[w.run].rows)
            IN  /\ store[t].parquet = to_parquet(_merge(batch[w.run], w.seen).df)
                /\ \A r \in Runs \ {w.run} :
                      \A k \in KeyTexts(batch[r].rows) \ kept :
                          k \notin FileKeys(store[t].parquet)

\* both runs returned from a sync of one store, one of them reported a row
\* appended, and the persisted master does not have that row's key
C5_Witness ==
    \E t \in Targets : \E r \in Runs :
        /\ \A q \in Runs : pc[q] = "idle"
        /\ \A q \in Runs : \E rep \in Reports(q) : rep.store = t /\ rep.raised = ""
        /\ \E rep \in Reports(r) :
              /\ rep.store = t /\ rep.raised = "" /\ rep.appended > 0
              /\ \E k \in KeyTexts(batch[r].rows) :
                    /\ k \notin FileKeys(rep.before.store[t].parquet)
                    /\ k \in FileKeys(rep.after.store[t].parquet)
                    /\ k \notin FileKeys(store[t].parquet)

\* C8: once the download is over, a sync raises the invalid-input error
\* exactly when the batch lacks the key column, whatever the master is, and
\* then no local master file has been written and nothing uploaded; no batch
\* without the key column gets as far as an upload.
C8_RaisesIffNoKey ==
    \A r \in Runs :
        /\ \A rep \in Reports(r) :
              rep.raised # "download" =>
                 /\ (rep.raised = "ValueError") <=> EnsureRaises(rep.before.batch)
                 /\ rep.raised = "ValueError" => rep.after = rep.before
        /\ pc[r] \in {"upload_parquet", "upload_csv"} => ~EnsureRaises(batch[r])

\* the error was raised against a keyed master with rows and against a
\* store without a master
C8_Witness ==
    \E rep1, rep2 \in Reports(1) :
        /\ rep1.raised = "ValueError" /\ rep2.raised = "ValueError"
        /\ rep1.master_existed /\ ~rep2.master_existed
        /\ FileKeys(rep1.before.store[rep1.store].parquet) # {}

\* C9: a sync that returns leaves in its store merge(batch, that store's
\* previous master), leaves every other store as it was, and leaves the
\* batch as it was, whatever the working directory holds from earlier syncs.
C9_StoreIsolation ==
    \A rep \in Reports(1) :
        /\ rep.raised = "" =>
              rep.after.store[rep.store].parquet =
                 to_parquet(_merge(rep.before.batch,
                                   rep.before.store[rep.store].parquet).df)
        /\ \A u \in Targets \ {rep.store} : rep.after.store[u] = rep.before.store[u]
        /\ rep.after.batch = rep.before.batch

\* store A had a master with a row the batch lacks, store B had none, and B
\* was synced after A with A's master file still in the working directory
C9_Witness ==
    /\ Len(ret[1]) = 2
    /\ ret[1][1].raised = "" /\ ret[1][2].raised = ""
    /\ ret[1][1].store # ret[1][2].store
    /\ ret[1][1].master_existed /\ ~ret[1][2].master_existed
    /\ ret[1][2].before.local.parquet # NoFile
    /\ FileKeys(ret[1][2].before.local.parquet) \ KeyTexts(batch[1].rows) # {}

NotFoundAnswer(rep) ==
    IF rep.store = "s3" THEN rep.resp.get \in {"404", "NoSuchKey", "NotFound"}
    ELSE rep.resp.exists = "false"

FailedAnswer(rep) ==
    IF rep.store = "s3" THEN rep.resp.get = "AccessDenied"
    ELSE rep.resp.exists = "error" \/ (rep.resp.exists = "true" /\ rep.resp.get = "error")

\* C10: a master that is not found is no prior master: the download does not
\* raise, and a sync that returns reports master_existed = false and has
\* persisted the batch; any other download failure is raised and leaves
\* every store as it was.
C10_NotFoundIsNoMaster ==
    \A rep \in Reports(1) :
        /\ NotFoundAnswer(rep) =>
              /\ rep.raised # "download"
              /\ ~rep.master_existed
              /\ ~EnsureRaises(rep.before.batch) => rep.raised \in {"", "upload"}
              /\ rep.raised = "" =>
                    /\ rep.after.store[rep.store].parquet =
                          to_parquet(_ensure_dedupe(rep.before.batch))
                    /\ rep.appended = Len(rep.before.batch.rows)
                    /\ rep.master_total = Len(rep.before.batch.rows)
        /\ FailedAnswer(rep) =>
              /\ rep.raised = "download"
              /\ rep.after.store = rep.before.store

\* one sync found no master and persisted a batch with rows, the other was
\* refused access to a store that has a master
C10_Witness ==
    \E rep1, rep2 \in Reports(1) :
        /\ NotFoundAnswer(rep1) /\ rep1.raised = "" /\ rep1.appended > 0
        /\ FailedAnswer(rep2) /\ rep2.raised = "download"
        /\ rep2.before.store[rep2.store].parquet # NoFile

====
